---------------------------- MODULE Spec2Model ----------------------------
(***************************************************************************)
(* Model of the snapgram client: the remote data gateway                   *)
(* (src/lib/appwrite/api.ts), the react-query query and mutation hooks     *)
(* (src/lib/react-query/queriesAndMutations.ts) and the like / save        *)
(* handlers of the PostStats component.                                    *)
(*                                                                         *)
(* Specifications: SpecGateway (one call of a gateway function), SpecLike  *)
(* and SpecSave (PostStats with the mutation hooks), SpecQuery (the recent *)
(* posts and search queries), SpecFeed (the infinite feed) and SpecTags    *)
(* (the tag conversion of createPost and updatePost).                      *)
(*                                                                         *)
(* The hosted backend is modelled by the record `backend`.  Every remote   *)
(* SDK call ends in one of three ways: it resolves with a truthy value     *)
(* ("ok", the operation was performed), it resolves with a falsy value     *)
(* ("nil", nothing was performed) or its promise rejects ("reject").       *)
(* Identifiers are positive integers; 0 is the empty (falsy) identifier.   *)
(* A preview URL is represented by the id of the file it is derived from.  *)
(***************************************************************************)
EXTENDS Integers, Sequences, FiniteSets, TLC

VARIABLES backend, calls, ret, lastOp, ncalls,
          likes, isSaved, cachedSaves, stale, inflight,
          formTags, writtenTags,
          queries, searchInput, feed, cache

vars == <<backend, calls, ret, lastOp, ncalls,
          likes, isSaved, cachedSaves, stale, inflight,
          formTags, writtenTags,
          queries, searchInput, feed, cache>>

gatewayVars == <<backend, calls, ret, lastOp, ncalls>>
uiVars == <<likes, isSaved, cachedSaves, stale, inflight>>
tagVars == <<formTags, writtenTags>>
queryVars == <<queries, searchInput, feed, cache>>

(***************************************************************************)
(* Bounds of the model.                                                    *)
(***************************************************************************)
\* gateway calls made one after the other in one run of the gateway model
MaxCalls == 1
\* mutations a client may have in flight at the same time
MaxInflight == 2
\* Save records the backend holds in one run of the component model
MaxSaves == 2
\* characters of a tag string typed into the post form
MaxTagsLen == 4
\* distinct non-empty search terms typed
MaxTerms == 2
\* fetches started in one run of the query model
MaxFetches == 3
\* posts created in one run of the feed model
MaxFeedPosts == 3
\* requests made to the feed query in one run of the feed model
MaxRequests == 3
\* hooks mounted or mutated in one run of the cache model
MaxCacheOps == 2
\* documents of a page of the feed in the model (Query.limit)
PageLimit == 2

\* runs repeated after a throw, by the default options of new QueryClient()
DefaultRetry == 3

Outcome == {"ok", "nil", "reject"}

\* the empty function / empty collection
NoDocs == [x \in {} |-> 0]

Range(seq) == {seq[i] : i \in 1..Len(seq)}

Without(f, id) == [x \in (DOMAIN f) \ {id} |-> f[x]]

(***************************************************************************)
(* The backend: what one SDK call does to it when it is performed.         *)
(***************************************************************************)
EmptyBackend ==
    [accounts |-> {}, session |-> 0, users |-> NoDocs, files |-> {},
     posts |-> NoDocs, saves |-> NoDocs, nextId |-> 1]

NewDocument(coll, id, data) ==
    LET blank == [accountId |-> 0, user |-> 0, post |-> 0,
                  imageUrl |-> 0, imageId |-> 0, likes |-> <<>>]
    IN  CASE coll = "users" -> [blank EXCEPT !.accountId = data[1]]
          [] coll = "posts" -> [blank EXCEPT !.imageUrl = data[1], !.imageId = data[2]]
          [] coll = "saves" -> [blank EXCEPT !.user = data[1], !.post = data[2]]

\* the call targets something that is not there: the backend rejects it
Missing(s, api, coll, attr, id) ==
    CASE api \in {"databases.updateDocument", "databases.deleteDocument",
                  "databases.getDocument"} -> id \notin DOMAIN s[coll]
      [] api = "databases.listDocuments" /\ attr = "cursorAfter" ->
           id \notin DOMAIN s[coll]
      [] api = "storage.deleteFile" -> id \notin s.files
      [] api \in {"account.get", "account.deleteSession"} -> s.session = 0
      [] api = "account.createEmailPasswordSession" -> id \notin s.accounts
      [] OTHER -> FALSE

Perform(s, api, coll, attr, id, data) ==
    CASE api = "account.create" ->
           [s EXCEPT !.accounts = @ \cup {s.nextId}, !.nextId = @ + 1]
      [] api = "account.createEmailPasswordSession" -> [s EXCEPT !.session = id]
      [] api = "account.deleteSession" -> [s EXCEPT !.session = 0]
      [] api = "storage.createFile" ->
           [s EXCEPT !.files = @ \cup {s.nextId}, !.nextId = @ + 1]
      [] api = "storage.deleteFile" -> [s EXCEPT !.files = @ \ {id}]
      [] api = "databases.createDocument" ->
           [s EXCEPT ![coll] = [x \in (DOMAIN @) \cup {s.nextId} |->
                                  IF x = s.nextId THEN NewDocument(coll, id, data)
                                                  ELSE @[x]],
                     !.nextId = @ + 1]
      [] api = "databases.updateDocument" ->
           IF attr = "likes"
             THEN [s EXCEPT ![coll][id].likes = data]
             ELSE [s EXCEPT ![coll][id].imageUrl = data[1],
                            ![coll][id].imageId = data[2]]
      [] api = "databases.deleteDocument" -> [s EXCEPT ![coll] = Without(@, id)]
      [] OTHER -> s

(***************************************************************************)
(* One execution of a gateway function is a record m: the backend state s  *)
(* it has reached, the remote calls it has issued so far, and the outcome  *)
(* `out` and value `val` of the call it issued last.                       *)
(***************************************************************************)
Start(s) == [s |-> s, calls |-> <<>>, out |-> "ok", val |-> 0]

Remote(m, api, coll, attr, id, data, o) ==
    LET out == IF Missing(m.s, api, coll, attr, id) THEN "reject" ELSE o
        creates == api \in {"account.create", "storage.createFile",
                            "databases.createDocument"}
        val == IF out # "ok" THEN 0
               ELSE IF creates THEN m.s.nextId
               ELSE IF api = "account.get" THEN m.s.session
               ELSE id
    IN  [s     |-> IF out = "ok" THEN Perform(m.s, api, coll, attr, id, data) ELSE m.s,
         calls |-> Append(m.calls, [api |-> api, coll |-> coll, attr |-> attr, id |-> id,
                                    data |-> data, out |-> out, val |-> val]),
         out   |-> out,
         val   |-> val]

\* what a gateway function hands to its caller
Result(m, kind, val) == [s |-> m.s, calls |-> m.calls, ret |-> [kind |-> kind, val |-> val]]
Value(m, val)  == Result(m, "value", val)
Undefined(m)   == Result(m, "undefined", 0)
ErrorValue(m)  == Result(m, "error", 0)
Thrown(m)      == Result(m, "thrown", 0)
\* the state of r, to go on from
After(r) == [s |-> r.s, calls |-> r.calls, out |-> "ok", val |-> r.ret.val]

(***************************************************************************)
(* The gateway functions of api.ts.  Each takes the execution m it runs    *)
(* in, its arguments, and the outcome of each remote call it may issue.    *)
(***************************************************************************)
\* saveUserToDB as it would be with one retry of a failed write
saveUserToDBRetrying(m, accountId, o) ==
    LET m1 == Remote(m, "databases.createDocument", "users", "", 0, <<accountId>>, o)
        m2 == Remote(m1, "databases.createDocument", "users", "", 0, <<accountId>>, "ok")
    IN  IF m1.out = "ok" THEN Value(m1, m1.val) ELSE Value(m2, m2.val)

saveUserToDB(m, accountId, o) ==
    LET m1 == Remote(m, "databases.createDocument", "users", "", 0, <<accountId>>, o)
    IN  IF m1.out = "reject" THEN Undefined(m1)          \* catch: console.log
        ELSE IF m1.out = "nil" THEN Undefined(m1)        \* return newUser (falsy)
        ELSE Value(m1, m1.val)

\* createUserAccount as it would be with a compensating step: the account is
\* blocked again when the User record cannot be written
createUserAccountRollingBack(m, oAccount, oUser) ==
    LET m1 == Remote(m, "account.create", "", "", 0, <<>>, oAccount)
        r2 == saveUserToDB(m1, m1.val, oUser)
    IN  IF m1.out # "ok" THEN ErrorValue(m1)
        ELSE IF r2.ret.kind = "value" THEN r2
        ELSE Undefined(Remote(After(r2), "account.updateStatus", "", "", m1.val, <<>>, "ok"))

createUserAccount(m, oAccount, oUser) ==
    LET m1 == Remote(m, "account.create", "", "", 0, <<>>, oAccount)
    IN  IF m1.out = "reject" THEN ErrorValue(m1)         \* catch: return error
        ELSE IF m1.out = "nil" THEN ErrorValue(m1)       \* throw Error; return error
        ELSE saveUserToDB(m1, m1.val, oUser)             \* return newUser

\* signInAccount as it would be without its try / catch
signInAccountUncaught(m, accountId, o) ==
    LET m1 == Remote(m, "account.createEmailPasswordSession", "", "", accountId, <<>>, o)
    IN  IF m1.out = "ok" THEN Value(m1, m1.val)
        ELSE IF m1.out = "reject" THEN Thrown(m1)
        ELSE Undefined(m1)

signInAccount(m, accountId, o) ==
    LET m1 == Remote(m, "account.createEmailPasswordSession", "", "", accountId, <<>>, o)
    IN  IF m1.out = "ok" THEN Value(m1, m1.val) ELSE Undefined(m1)

getAccount(m, o) ==
    LET m1 == Remote(m, "account.get", "", "", 0, <<>>, o)
    IN  IF m1.out = "ok" THEN Value(m1, m1.val) ELSE Undefined(m1)

\* currentUser.documents[0]: the first User record whose accountId matches
FirstUserOf(s, accountId) ==
    LET found == {u \in DOMAIN s.users : s.users[u].accountId = accountId}
    IN  IF found = {} THEN 0 ELSE CHOOSE u \in found : \A v \in found : u <= v

\* getCurrentUser as it would be if it looked the user up whether or not the
\* account was fetched
getCurrentUserUnchecked(m, oAccount, oList) ==
    LET r1 == getAccount(m, oAccount)
        m2 == Remote(After(r1), "databases.listDocuments", "users",
                     "accountId", r1.ret.val, <<>>, oList)
        first == FirstUserOf(m2.s, r1.ret.val)
    IN  IF m2.out # "ok" THEN Undefined(m2)
        ELSE IF first = 0 THEN Undefined(m2)
        ELSE Value(m2, first)

getCurrentUser(m, oAccount, oList) ==
    LET r1 == getAccount(m, oAccount)
    IN  IF r1.ret.kind # "value" THEN Undefined(After(r1))   \* throw Error; catch
        ELSE LET m2 == Remote(After(r1), "databases.listDocuments", "users",
                              "accountId", r1.ret.val, <<>>, oList)
                 first == FirstUserOf(m2.s, r1.ret.val)
             IN  IF m2.out # "ok" THEN Undefined(m2)
                 ELSE IF first = 0 THEN Undefined(m2)        \* documents[0] of none
                 ELSE Value(m2, first)

getUsers(m, limit, o) ==
    LET m1 == Remote(m, "databases.listDocuments", "users",
                     IF limit # 0 THEN "limit" ELSE "", limit, <<>>, o)
    IN  IF m1.out = "ok" THEN Value(m1, 0) ELSE Undefined(m1)

signOutAccount(m, o) ==
    LET m1 == Remote(m, "account.deleteSession", "", "", 0, <<>>, o)
    IN  IF m1.out = "ok" THEN Value(m1, 0) ELSE Undefined(m1)

uploadFile(m, o) ==
    LET m1 == Remote(m, "storage.createFile", "", "", 0, <<>>, o)
    IN  IF m1.out = "ok" THEN Value(m1, m1.val) ELSE Undefined(m1)

\* builds the preview URL locally; no request is sent
getFilePreview(m, fileId, o) ==
    IF o = "ok" THEN Value(m, fileId) ELSE Undefined(m)

deleteFile(m, fileId, o) ==
    LET m1 == Remote(m, "storage.deleteFile", "", "", fileId, <<>>, o)
    IN  IF m1.out = "reject" THEN Undefined(m1)          \* catch: console.log
        ELSE Value(m1, 0)                                \* { status: "ok" }

\* createPost as it would be if it went on after a failed upload
createPostUnchecked(m, oUpload, oPreview, oDoc, oDelete) ==
    LET r1 == uploadFile(m, oUpload)
        r2 == getFilePreview(After(r1), r1.ret.val, oPreview)
        m3 == Remote(After(r1), "databases.createDocument", "posts", "", 0,
                     <<r2.ret.val, r1.ret.val>>, oDoc)
    IN  IF r2.ret.kind # "value"
          THEN Undefined(After(deleteFile(After(r1), r1.ret.val, oDelete)))
        ELSE IF m3.out = "reject" THEN Undefined(m3)
        ELSE IF m3.out = "nil"
          THEN Undefined(After(deleteFile(m3, r1.ret.val, oDelete)))
        ELSE Value(m3, m3.val)

createPost(m, oUpload, oPreview, oDoc, oDelete) ==
    LET r1 == uploadFile(m, oUpload)
        r2 == getFilePreview(After(r1), r1.ret.val, oPreview)
        m3 == Remote(After(r1), "databases.createDocument", "posts", "", 0,
                     <<r2.ret.val, r1.ret.val>>, oDoc)
    IN  IF r1.ret.kind # "value" THEN Undefined(After(r1))   \* throw Error; catch
        ELSE IF r2.ret.kind # "value"
          THEN Undefined(After(deleteFile(After(r1), r1.ret.val, oDelete)))
        ELSE IF m3.out = "reject" THEN Undefined(m3)         \* catch: console.log
        ELSE IF m3.out = "nil"
          THEN Undefined(After(deleteFile(m3, r1.ret.val, oDelete)))
        ELSE Value(m3, m3.val)

\* getRecentPosts as it would be if it issued its list call again on failure
getRecentPostsReissuing(m, o) ==
    LET m1 == Remote(m, "databases.listDocuments", "posts", "", 0, <<>>, o)
        m2 == Remote(m1, "databases.listDocuments", "posts", "", 0, <<>>, o)
    IN  IF m1.out = "ok" THEN Value(m1, 0) ELSE Thrown(m2)

getRecentPosts(m, o) ==
    LET m1 == Remote(m, "databases.listDocuments", "posts", "", 0, <<>>, o)
    IN  IF m1.out = "reject" THEN Thrown(m1)             \* no try / catch
        ELSE IF m1.out = "nil" THEN Thrown(m1)           \* throw Error
        ELSE Value(m1, 0)

\* likePost as it would be if the backend added the ids sent to those it holds
likePostMerging(m, postId, likesArray, o) ==
    LET held == IF postId \in DOMAIN m.s.posts THEN m.s.posts[postId].likes ELSE <<>>
        more == SelectSeq(likesArray, LAMBDA id : id \notin Range(held))
        m1 == Remote(m, "databases.updateDocument", "posts", "likes", postId, held \o more, o)
    IN  IF m1.out = "ok" THEN Value(m1, postId) ELSE Undefined(m1)

likePost(m, postId, likesArray, o) ==
    LET m1 == Remote(m, "databases.updateDocument", "posts", "likes", postId, likesArray, o)
    IN  IF m1.out = "ok" THEN Value(m1, postId) ELSE Undefined(m1)

savePost(m, postId, userId, o) ==
    LET m1 == Remote(m, "databases.createDocument", "saves", "", 0, <<userId, postId>>, o)
    IN  IF m1.out = "ok" THEN Value(m1, m1.val) ELSE Undefined(m1)

deleteSavedPost(m, savedRecordId, o) ==
    LET m1 == Remote(m, "databases.deleteDocument", "saves", "", savedRecordId, <<>>, o)
    IN  IF m1.out = "ok" THEN Value(m1, 0) ELSE Undefined(m1)

getPostById(m, postId, o) ==
    LET m1 == Remote(m, "databases.getDocument", "posts", "", postId, <<>>, o)
    IN  IF m1.out = "ok" THEN Value(m1, postId) ELSE Undefined(m1)

\* updatePost as it would be if a replaced image were purged from storage
updatePostPurging(m, post, oUpload, oPreview, oDoc, oDelete) ==
    LET r1 == uploadFile(m, oUpload)
        r2 == getFilePreview(After(r1), r1.ret.val, oPreview)
        mU == IF post.hasFile THEN After(r1) ELSE m
        image == IF post.hasFile THEN <<r2.ret.val, r1.ret.val>>
                                 ELSE <<post.imageUrl, post.imageId>>
        m3 == Remote(mU, "databases.updateDocument", "posts", "image",
                     post.postId, image, oDoc)
    IN  IF post.hasFile /\ r1.ret.kind # "value" THEN Undefined(After(r1))
        ELSE IF post.hasFile /\ r2.ret.kind # "value"
          THEN Undefined(After(deleteFile(After(r1), r1.ret.val, oDelete)))
        ELSE IF m3.out = "reject" THEN Undefined(m3)
        ELSE IF m3.out = "nil"
          THEN Undefined(After(deleteFile(m3, post.imageId, oDelete)))
        ELSE IF post.hasFile
          THEN Value(After(deleteFile(m3, post.imageId, oDelete)), post.postId)
        ELSE Value(m3, post.postId)

\* updatePost as it would be if a new file changed the imageId alone
updatePostKeepingUrl(m, post, oUpload, oPreview, oDoc, oDelete) ==
    LET r1 == uploadFile(m, oUpload)
        r2 == getFilePreview(After(r1), r1.ret.val, oPreview)
        mU == IF post.hasFile THEN After(r1) ELSE m
        image == IF post.hasFile THEN <<post.imageUrl, r1.ret.val>>
                                 ELSE <<post.imageUrl, post.imageId>>
        m3 == Remote(mU, "databases.updateDocument", "posts", "image",
                     post.postId, image, oDoc)
    IN  IF post.hasFile /\ r1.ret.kind # "value" THEN Undefined(After(r1))
        ELSE IF post.hasFile /\ r2.ret.kind # "value"
          THEN Undefined(After(deleteFile(After(r1), r1.ret.val, oDelete)))
        ELSE IF m3.out = "reject" THEN Undefined(m3)
        ELSE IF m3.out = "nil"
          THEN Undefined(After(deleteFile(m3, post.imageId, oDelete)))
        ELSE Value(m3, post.postId)

\* post = [postId, imageUrl, imageId, hasFile]
updatePost(m, post, oUpload, oPreview, oDoc, oDelete) ==
    LET r1 == uploadFile(m, oUpload)
        r2 == getFilePreview(After(r1), r1.ret.val, oPreview)
        mU == IF post.hasFile THEN After(r1) ELSE m
        image == IF post.hasFile THEN <<r2.ret.val, r1.ret.val>>
                                 ELSE <<post.imageUrl, post.imageId>>
        m3 == Remote(mU, "databases.updateDocument", "posts", "image",
                     post.postId, image, oDoc)
    IN  IF post.hasFile /\ r1.ret.kind # "value" THEN Undefined(After(r1))
        ELSE IF post.hasFile /\ r2.ret.kind # "value"
          THEN Undefined(After(deleteFile(After(r1), r1.ret.val, oDelete)))
        ELSE IF m3.out = "reject" THEN Undefined(m3)         \* catch: console.log
        ELSE IF m3.out = "nil"
          THEN Undefined(After(deleteFile(m3, post.imageId, oDelete)))
        ELSE Value(m3, post.postId)

\* deletePost as it would be if only the post id were required
deletePostUnguardedImage(m, postId, imageId, oDoc, oFile) ==
    LET m1 == Remote(m, "databases.deleteDocument", "posts", "", postId, <<>>, oDoc)
    IN  IF postId = 0 THEN Thrown(m)
        ELSE IF m1.out # "ok" THEN Undefined(m1)
        ELSE Value(After(deleteFile(m1, imageId, oFile)), 0)

\* deletePost as it would be if the image were deleted before the record
deletePostImageFirst(m, postId, imageId, oDoc, oFile) ==
    LET r1 == deleteFile(m, imageId, oFile)
        m2 == Remote(After(r1), "databases.deleteDocument", "posts", "", postId, <<>>, oDoc)
    IN  IF postId = 0 \/ imageId = 0 THEN Thrown(m)
        ELSE IF m2.out # "ok" THEN Undefined(m2)
        ELSE Value(m2, 0)

deletePost(m, postId, imageId, oDoc, oFile) ==
    LET m1 == Remote(m, "databases.deleteDocument", "posts", "", postId, <<>>, oDoc)
    IN  IF postId = 0 \/ imageId = 0 THEN Thrown(m)      \* throw Error, outside try
        ELSE IF m1.out # "ok" THEN Undefined(m1)         \* catch: console.log
        ELSE Value(After(deleteFile(m1, imageId, oFile)), 0)   \* { status: "ok" }

\* getInfinitePosts as it would be if it always attached a cursor
getInfinitePostsAlwaysCursor(m, pageParam, o) ==
    LET m1 == Remote(m, "databases.listDocuments", "posts", "cursorAfter",
                     pageParam, <<>>, o)
    IN  IF m1.out = "ok" THEN Value(m1, 0) ELSE Undefined(m1)

getInfinitePosts(m, pageParam, o) ==
    LET m1 == Remote(m, "databases.listDocuments", "posts",
                     IF pageParam # 0 THEN "cursorAfter" ELSE "", pageParam, <<>>, o)
    IN  IF m1.out = "ok" THEN Value(m1, 0) ELSE Undefined(m1)

searchPosts(m, searchTerm, o) ==
    LET m1 == Remote(m, "databases.listDocuments", "posts", "search", searchTerm, <<>>, o)
    IN  IF m1.out = "ok" THEN Value(m1, 0) ELSE Undefined(m1)

(***************************************************************************)
(* The gateway model: one action per exported function of api.ts, called   *)
(* on the backend as it stands, with every outcome of its remote calls.    *)
(* The backend starts in any of the states Backends: a signed-up user      *)
(* (account 1, User record 2) who may be signed in, may have created a     *)
(* post (file 3, Post record 4) and may have saved it (Save record 5),     *)
(* with any of these records already deleted again.  Arguments are the     *)
(* ids the backend holds, an id it does not hold (Unknown) and, where the  *)
(* code tests for it, the empty id 0.  lastOp, calls and ret describe the  *)
(* gateway function that returned in the last step: its name and           *)
(* arguments, the remote calls it issued, and what it handed back.         *)
(***************************************************************************)
NoResult == [kind |-> "undefined", val |-> 0]
NoOp == [name |-> "none", args |-> <<>>, by |-> 0]

FullBackend ==
    LET s1 == Perform(EmptyBackend, "account.create", "", "", 0, <<>>)
        s2 == Perform(s1, "databases.createDocument", "users", "", 0, <<1>>)
        s3 == Perform(s2, "storage.createFile", "", "", 0, <<>>)
        s4 == Perform(s3, "databases.createDocument", "posts", "", 0, <<3, 3>>)
        s5 == Perform(s4, "databases.createDocument", "saves", "", 0, <<2, 4>>)
    IN  Perform(s5, "account.createEmailPasswordSession", "", "", 1, <<>>)

Removable == {"session", "user", "file", "post", "save"}

Strip(s, gone) ==
    LET a == IF "session" \in gone THEN Perform(s, "account.deleteSession", "", "", 0, <<>>) ELSE s
        b == IF "user" \in gone THEN Perform(a, "databases.deleteDocument", "users", "", 2, <<>>) ELSE a
        c == IF "file" \in gone THEN Perform(b, "storage.deleteFile", "", "", 3, <<>>) ELSE b
        d == IF "post" \in gone THEN Perform(c, "databases.deleteDocument", "posts", "", 4, <<>>) ELSE c
    IN  IF "save" \in gone THEN Perform(d, "databases.deleteDocument", "saves", "", 5, <<>>) ELSE d

Backends == {Strip(FullBackend, gone) : gone \in SUBSET Removable}

\* an id nothing in the backend has
Unknown(s) == s.nextId

\* no post form is being submitted
TagsIdle == formTags = <<>> /\ writtenTags = <<>>

\* no query hook is in use
QueriesIdle == queries = <<>> /\ searchInput = 0 /\ feed = <<>> /\ cache = <<>>

UIIdle ==
    /\ likes = <<>>
    /\ isSaved = <<>>
    /\ cachedSaves = <<>>
    /\ stale = <<>>
    /\ inflight = {}

InitGateway ==
    /\ backend \in Backends
    /\ calls = <<>>
    /\ ret = NoResult
    /\ lastOp = NoOp
    /\ ncalls = 0
    /\ UIIdle
    /\ TagsIdle
    /\ QueriesIdle

Returns(name, args, r) ==
    /\ ncalls < MaxCalls
    /\ ncalls' = ncalls + 1
    /\ backend' = r.s
    /\ calls' = r.calls
    /\ ret' = r.ret
    /\ lastOp' = [name |-> name, args |-> args, by |-> 0]
    /\ UNCHANGED <<uiVars, tagVars, queryVars>>

CreateUserAccount ==
    \E o1, o2 \in Outcome :
        Returns("createUserAccount", <<>>, createUserAccount(Start(backend), o1, o2))

SaveUserToDB ==
    \E a \in backend.accounts, o \in Outcome :
        Returns("saveUserToDB", <<a>>, saveUserToDB(Start(backend), a, o))

SignInAccount ==
    \E a \in backend.accounts \cup {Unknown(backend)}, o \in Outcome :
        Returns("signInAccount", <<a>>, signInAccount(Start(backend), a, o))

GetAccount ==
    \E o \in Outcome : Returns("getAccount", <<>>, getAccount(Start(backend), o))

GetCurrentUser ==
    \E o1, o2 \in Outcome :
        Returns("getCurrentUser", <<>>, getCurrentUser(Start(backend), o1, o2))

GetUsers ==
    \E limit \in {0, 1}, o \in Outcome :
        Returns("getUsers", <<limit>>, getUsers(Start(backend), limit, o))

SignOutAccount ==
    \E o \in Outcome : Returns("signOutAccount", <<>>, signOutAccount(Start(backend), o))

CreatePost ==
    \E o1, o2, o3, o4 \in Outcome :
        Returns("createPost", <<>>, createPost(Start(backend), o1, o2, o3, o4))

UploadFile ==
    \E o \in Outcome : Returns("uploadFile", <<>>, uploadFile(Start(backend), o))

GetFilePreview ==
    \E f \in backend.files \cup {Unknown(backend)}, o \in Outcome :
        Returns("getFilePreview", <<f>>, getFilePreview(Start(backend), f, o))

DeleteFile ==
    \E f \in backend.files \cup {Unknown(backend)}, o \in Outcome :
        Returns("deleteFile", <<f>>, deleteFile(Start(backend), f, o))

GetRecentPosts ==
    \E o \in Outcome : Returns("getRecentPosts", <<>>, getRecentPosts(Start(backend), o))

LikePost ==
    \E p \in DOMAIN backend.posts \cup {Unknown(backend)},
       l \in {<<>>} \cup {<<u>> : u \in DOMAIN backend.users}, o \in Outcome :
        Returns("likePost", <<p>>, likePost(Start(backend), p, l, o))

SavePost ==
    \E p \in DOMAIN backend.posts, u \in DOMAIN backend.users, o \in Outcome :
        Returns("savePost", <<p, u>>, savePost(Start(backend), p, u, o))

DeleteSavedPost ==
    \E r \in DOMAIN backend.saves \cup {Unknown(backend)}, o \in Outcome :
        Returns("deleteSavedPost", <<r>>, deleteSavedPost(Start(backend), r, o))

GetPostById ==
    \E p \in DOMAIN backend.posts \cup {Unknown(backend)}, o \in Outcome :
        Returns("getPostById", <<p>>, getPostById(Start(backend), p, o))

UpdatePost ==
    \E p \in DOMAIN backend.posts, hasFile \in BOOLEAN, o1, o2, o3, o4 \in Outcome :
        LET post == [postId |-> p, imageUrl |-> backend.posts[p].imageUrl,
                     imageId |-> backend.posts[p].imageId, hasFile |-> hasFile]
        IN  Returns("updatePost",
                    <<p, post.imageId, IF hasFile THEN 1 ELSE 0, post.imageUrl>>,
                    updatePost(Start(backend), post, o1, o2, o3, o4))

\* the ids deletePost is called with: those of a post the backend holds or held,
\* either of them possibly empty
DeletePost ==
    \E p \in DOMAIN backend.posts \cup {0, Unknown(backend)},
       i \in backend.files \cup {0, Unknown(backend)}, o1, o2 \in Outcome :
        Returns("deletePost", <<p, i>>, deletePost(Start(backend), p, i, o1, o2))

GetInfinitePosts ==
    \E c \in DOMAIN backend.posts \cup {0}, o \in Outcome :
        Returns("getInfinitePosts", <<c>>, getInfinitePosts(Start(backend), c, o))

SearchPosts ==
    \E term \in {1}, o \in Outcome :
        Returns("searchPosts", <<term>>, searchPosts(Start(backend), term, o))

NextGateway ==
    \/ CreateUserAccount
    \/ SaveUserToDB
    \/ SignInAccount
    \/ GetAccount
    \/ GetCurrentUser
    \/ GetUsers
    \/ SignOutAccount
    \/ CreatePost
    \/ UploadFile
    \/ GetFilePreview
    \/ DeleteFile
    \/ GetRecentPosts
    \/ LikePost
    \/ SavePost
    \/ DeleteSavedPost
    \/ GetPostById
    \/ UpdatePost
    \/ DeletePost
    \/ GetInfinitePosts
    \/ SearchPosts

SpecGateway == InitGateway /\ [][NextGateway]_vars

(***************************************************************************)
(* The cache layer and the PostStats component.  Two signed-up users       *)
(* (the callers) look at the same post, each in a browser of their own:    *)
(* each has a query cache, a PostStats component with its local `likes`    *)
(* and `isSaved` state, and mutations in flight.                           *)
(***************************************************************************)
UIBackend ==
    LET s1 == Perform(EmptyBackend, "account.create", "", "", 0, <<>>)
        s2 == Perform(s1, "account.create", "", "", 0, <<>>)
        s3 == Perform(s2, "databases.createDocument", "users", "", 0, <<1>>)
        s4 == Perform(s3, "databases.createDocument", "users", "", 0, <<2>>)
        s5 == Perform(s4, "storage.createFile", "", "", 0, <<>>)
    IN  Perform(s5, "databases.createDocument", "posts", "", 0, <<s5.nextId - 1, s5.nextId - 1>>)

Callers == DOMAIN UIBackend.users
ThePost == CHOOSE p \in DOMAIN UIBackend.posts : TRUE

\* the members of QUERY_KEYS the hooks use
GET_POST_BY_ID == "getPostById"
GET_RECENT_POSTS == "getRecentPosts"
GET_POSTS == "getPosts"
GET_INFINITE_POSTS == "getInfinitePosts"
GET_CURRENT_USER == "getCurrentUser"

\* the queries a caller's pages keep in the cache, by query key
PostByIdQuery(p) == <<GET_POST_BY_ID, p>>
RecentPostsQuery == <<GET_RECENT_POSTS>>
FeedQuery == <<GET_INFINITE_POSTS>>
CurrentUserQuery == <<GET_CURRENT_USER>>
CachedQueries == {PostByIdQuery(ThePost), RecentPostsQuery, FeedQuery, CurrentUserQuery}

\* invalidateQueries({ queryKey }): every cached query whose key starts with it
Matches(filter, key) ==
    /\ Len(filter) <= Len(key)
    /\ \A i \in 1..Len(filter) : filter[i] = key[i]

invalidateQueries(staleNow, filters) ==
    staleNow \cup {k \in CachedQueries : \E f \in filters : Matches(f, k)}

\* onSuccess of useLikePost; data is the id of the returned post, 0 for none
useLikePostOnSuccess(data) ==
    {<<GET_POST_BY_ID, data>>, <<GET_RECENT_POSTS>>, <<GET_POSTS>>, <<GET_CURRENT_USER>>}

\* onSuccess of useSavePost and of useDeleteSavedPost
useSavePostOnSuccess == {<<GET_RECENT_POSTS>>, <<GET_POSTS>>, <<GET_CURRENT_USER>>}

\* MutationSucceeds as it would be if a mutation whose function resolved with
\* nothing settled as an error
MutationSucceedsWithData(r) == r.ret.kind = "value"

\* a mutation settles as a success unless its function throws
MutationSucceeds(r) == r.ret.kind # "thrown"

\* newLikes as it would be without the hasLiked test
newLikesAlwaysPushed(likesNow, userId) == Append(likesNow, userId)

\* newLikes as it would be if an unlike emptied the array
newLikesCleared(likesNow, userId) ==
    IF userId \in Range(likesNow) THEN <<>> ELSE Append(likesNow, userId)

\* handleLikePost: the new like array, from the local one
newLikes(likesNow, userId) ==
    IF userId \in Range(likesNow)
      THEN SelectSeq(likesNow, LAMBDA id : id # userId)
      ELSE Append(likesNow, userId)

\* currentUser?.save.find(record => record.post.$id === post.$id), 0 for none
savedPostRecord(u) ==
    IF cachedSaves[u] = {} THEN 0
    ELSE CHOOSE r \in cachedSaves[u] : \A q \in cachedSaves[u] : r <= q

\* the Save records of user u for the post, as getCurrentUser returns them
SavesOf(s, u) ==
    {r \in DOMAIN s.saves : s.saves[r].user = u /\ s.saves[r].post = ThePost}

InitUI ==
    /\ backend = UIBackend
    /\ calls = <<>>
    /\ ret = NoResult
    /\ lastOp = NoOp
    /\ ncalls = 0
    /\ likes = [u \in Callers |-> backend.posts[ThePost].likes]
    /\ isSaved = [u \in Callers |-> FALSE]
    /\ cachedSaves = [u \in Callers |-> SavesOf(backend, u)]
    /\ stale = [u \in Callers |-> {}]
    /\ inflight = {}
    /\ TagsIdle
    /\ QueriesIdle

\* a step in which no gateway function returns
NothingReturns ==
    /\ calls' = <<>>
    /\ ret' = NoResult
    /\ lastOp' = NoOp

Request(kind, u, id, data) == [kind |-> kind, by |-> u, id |-> id, data |-> data]

\* the click handler of the like icon
handleLikePost(u) ==
    /\ Cardinality(inflight) < MaxInflight
    /\ likes' = [likes EXCEPT ![u] = newLikes(likes[u], u)]
    /\ inflight' = inflight \cup {Request("like", u, ThePost, newLikes(likes[u], u))}
    /\ NothingReturns
    /\ UNCHANGED <<backend, ncalls, isSaved, cachedSaves, stale, tagVars, queryVars>>

\* the click handler of the save icon
handleSavePost(u) ==
    /\ Cardinality(inflight) < MaxInflight
    /\ IF savedPostRecord(u) # 0
         THEN /\ isSaved' = [isSaved EXCEPT ![u] = FALSE]
              /\ inflight' = inflight \cup {Request("unsave", u, savedPostRecord(u), <<>>)}
         ELSE /\ backend.nextId + Cardinality({q \in inflight : q.kind = "save"})
                   < UIBackend.nextId + MaxSaves
              /\ inflight' = inflight \cup {Request("save", u, ThePost, <<>>)}
              /\ isSaved' = [isSaved EXCEPT ![u] = TRUE]
    /\ NothingReturns
    /\ UNCHANGED <<backend, ncalls, likes, cachedSaves, stale, tagVars, queryVars>>

\* a mutation's function has run against the backend and the mutation settles
Settles(q, name, r, filters) ==
    /\ backend' = r.s
    /\ calls' = r.calls
    /\ ret' = r.ret
    /\ lastOp' = [name |-> name, args |-> <<q.id>>, by |-> q.by]
    /\ inflight' = inflight \ {q}
    /\ stale' = [stale EXCEPT ![q.by] =
                   IF MutationSucceeds(r) THEN invalidateQueries(@, filters) ELSE @]
    /\ UNCHANGED <<ncalls, likes, isSaved, cachedSaves, tagVars, queryVars>>

useLikePost ==
    \E q \in inflight, o \in Outcome :
        /\ q.kind = "like"
        /\ LET r == likePost(Start(backend), q.id, q.data, o)
           IN  Settles(q, "likePost", r, useLikePostOnSuccess(r.ret.val))

useSavePost ==
    \E q \in inflight, o \in Outcome :
        /\ q.kind = "save"
        /\ LET r == savePost(Start(backend), q.id, q.by, o)
           IN  Settles(q, "savePost", r, useSavePostOnSuccess)

useDeleteSavedPost ==
    \E q \in inflight, o \in Outcome :
        /\ q.kind = "unsave"
        /\ LET r == deleteSavedPost(Start(backend), q.id, o)
           IN  Settles(q, "deleteSavedPost", r, useSavePostOnSuccess)

\* the stale queries of caller u are fetched again and their results arrive;
\* the effect on [currentUser] then sets isSaved
Refetch(u) ==
    /\ stale[u] # {}
    /\ stale' = [stale EXCEPT ![u] = {}]
    /\ cachedSaves' = IF CurrentUserQuery \in stale[u]
                        THEN [cachedSaves EXCEPT ![u] = SavesOf(backend, u)]
                        ELSE cachedSaves
    /\ isSaved' = IF CurrentUserQuery \in stale[u]
                    THEN [isSaved EXCEPT ![u] = SavesOf(backend, u) # {}]
                    ELSE isSaved
    /\ NothingReturns
    /\ UNCHANGED <<backend, ncalls, likes, inflight, tagVars, queryVars>>

\* caller u opens the page anew: PostStats mounts on the post as the page's
\* query fetched it, and its effect sets isSaved from the cached current user
Mount(u) ==
    /\ likes' = [likes EXCEPT ![u] = backend.posts[ThePost].likes]
    /\ isSaved' = [isSaved EXCEPT ![u] = savedPostRecord(u) # 0]
    /\ NothingReturns
    /\ UNCHANGED <<backend, ncalls, cachedSaves, stale, inflight, tagVars, queryVars>>

\* the callers like and unlike the post
NextLike ==
    \/ \E u \in Callers : handleLikePost(u)
    \/ useLikePost
    \/ \E u \in Callers : Refetch(u)
    \/ \E u \in Callers : Mount(u)

SpecLike == InitUI /\ [][NextLike]_vars

\* the callers save and unsave the post
NextSave ==
    \/ \E u \in Callers : handleSavePost(u)
    \/ useSavePost
    \/ useDeleteSavedPost
    \/ \E u \in Callers : Refetch(u)
    \/ \E u \in Callers : Mount(u)

SpecSave == InitUI /\ [][NextSave]_vars

(***************************************************************************)
(* The queries of useGetRecentPosts and useSearchPost in the cache of the  *)
(* QueryClient, which QueryProvider creates with its default options: a    *)
(* query whose function throws is run again, up to DefaultRetry times,     *)
(* before its error is surfaced; cached data is stale at once, so a query  *)
(* is fetched again when a hook comes to use it or the window regains      *)
(* focus; a query function that resolves with undefined puts the query in  *)
(* its error state without retry.  A query is the record of: its status,   *)
(* whether a fetch is in flight, the runs of its function in the current   *)
(* fetch, the fetches started, the remote calls issued for it, and the     *)
(* number of times its error was surfaced.  searchInput is the term the    *)
(* search hook is rendered with, 0 for the empty term.                     *)
(***************************************************************************)
Terms == 1..MaxTerms

SEARCH_POSTS == "searchPosts"

SearchQuery(t) == <<SEARCH_POSTS, t>>

HookQueries == {RecentPostsQuery} \cup {SearchQuery(t) : t \in {0} \cup Terms}

NewQuery ==
    [status |-> "pending", fetching |-> FALSE, runs |-> 0, fetches |-> 0,
     remote |-> 0, errorUpdateCount |-> 0]

InitQuery ==
    /\ backend = UIBackend
    /\ calls = <<>>
    /\ ret = NoResult
    /\ lastOp = NoOp
    /\ ncalls = 0
    /\ queries = [k \in HookQueries |-> NewQuery]
    /\ searchInput = 0
    /\ feed = <<>>
    /\ cache = <<>>
    /\ UIIdle
    /\ TagsIdle

\* a fetch of query k starts
fetch(qs, k) == [qs EXCEPT ![k].fetching = TRUE, ![k].runs = 0, ![k].fetches = @ + 1]

\* the queries a mounted hook uses and has enabled
Observed ==
    {k \in {RecentPostsQuery} : queries[k].fetches > 0}
        \cup (IF searchInput # 0 THEN {SearchQuery(searchInput)} ELSE {})

\* the queries of ks that need a fetch started: those with none in flight
Idle(ks) == {k \in ks : ~queries[k].fetching}

RECURSIVE fetchAll(_, _)
fetchAll(qs, ks) ==
    IF ks = {} THEN qs
    ELSE LET k == CHOOSE x \in ks : TRUE IN fetchAll(fetch(qs, k), ks \ {k})

RECURSIVE Sum(_, _)
Sum(f, ks) ==
    IF ks = {} THEN 0
    ELSE LET k == CHOOSE x \in ks : TRUE IN f[k].fetches + Sum(f, ks \ {k})

StartsFetches(ks) ==
    /\ Sum(queries, HookQueries) + Cardinality(ks) <= MaxFetches
    /\ queries' = fetchAll(queries, ks)

\* a component using useGetRecentPosts mounts
useGetRecentPosts ==
    /\ Idle({RecentPostsQuery}) # {}
    /\ StartsFetches({RecentPostsQuery})
    /\ NothingReturns
    /\ UNCHANGED <<backend, ncalls, searchInput, feed, cache, uiVars, tagVars>>

\* useSearchPost as it would be without its enabled option
useSearchPostAlwaysEnabled(searchTerm) ==
    /\ searchTerm # searchInput
    /\ searchInput' = searchTerm
    /\ StartsFetches(Idle({SearchQuery(searchTerm)}))
    /\ NothingReturns
    /\ UNCHANGED <<backend, ncalls, feed, cache, uiVars, tagVars>>

\* the search hook is rendered with another term
useSearchPost(searchTerm) ==
    /\ searchTerm # searchInput
    /\ searchInput' = searchTerm
    /\ IF searchTerm # 0                                    \* enabled: !!searchTerm
         THEN StartsFetches(Idle({SearchQuery(searchTerm)}))
         ELSE UNCHANGED queries
    /\ NothingReturns
    /\ UNCHANGED <<backend, ncalls, feed, cache, uiVars, tagVars>>

\* the window regains focus: the queries in use are fetched again
WindowFocus ==
    /\ Idle(Observed) # {}
    /\ StartsFetches(Idle(Observed))
    /\ NothingReturns
    /\ UNCHANGED <<backend, ncalls, searchInput, feed, cache, uiVars, tagVars>>

\* the function of query k runs once and the cache takes its result
queryFn(k) ==
    \E o \in Outcome :
        LET r == IF k = RecentPostsQuery THEN getRecentPosts(Start(backend), o)
                                         ELSE searchPosts(Start(backend), k[2], o)
            q == queries[k]
            retry == r.ret.kind = "thrown" /\ q.runs < DefaultRetry
            status == IF retry THEN q.status
                      ELSE IF r.ret.kind = "value" THEN "success" ELSE "error"
        IN  /\ q.fetching
            /\ queries' = [queries EXCEPT
                   ![k] = [status |-> status,
                           fetching |-> retry,
                           runs |-> q.runs + 1,
                           fetches |-> q.fetches,
                           remote |-> q.remote + Len(r.calls),
                           errorUpdateCount |->
                               IF ~retry /\ status = "error"
                                 THEN q.errorUpdateCount + 1 ELSE q.errorUpdateCount]]
            /\ backend' = r.s
            /\ calls' = r.calls
            /\ ret' = r.ret
            /\ lastOp' = [name |-> IF k = RecentPostsQuery THEN "getRecentPosts"
                                                           ELSE "searchPosts",
                          args |-> Tail(k), by |-> 0]
            /\ UNCHANGED <<ncalls, searchInput, feed, cache, uiVars, tagVars>>

NextQuery ==
    \/ useGetRecentPosts
    \/ \E searchTerm \in {0} \cup Terms : useSearchPost(searchTerm)
    \/ WindowFocus
    \/ \E k \in HookQueries : queryFn(k)

SpecQuery == InitQuery /\ [][NextQuery]_vars

(***************************************************************************)
(* The infinite feed of useGetPosts.  feed is the data the query holds:    *)
(* its pages and the page parameter each was fetched with.  A page is what *)
(* getInfinitePosts resolved with: the documents listed, or nothing        *)
(* (absent) when the list call failed.  The posts are listed newest first; *)
(* no post is updated here, so a newer post is one with a greater id.      *)
(* A request fetches its pages one after the other and is not interrupted. *)
(* lastOp names the request made last and calls the remote calls it        *)
(* issued; ncalls counts the requests.                                     *)
(***************************************************************************)
Null == 0 - 1

RECURSIVE Descending(_)
Descending(ids) ==
    IF ids = {} THEN <<>>
    ELSE LET top == CHOOSE x \in ids : \A y \in ids : y <= x
         IN  <<top>> \o Descending(ids \ {top})

\* databases.listDocuments(posts, [orderDesc, limit, cursorAfter(cursor)])
listDocuments(s, cursor) ==
    LET all == Descending(DOMAIN s.posts)
        rest == IF cursor = 0 THEN all ELSE SelectSeq(all, LAMBDA id : id < cursor)
    IN  SubSeq(rest, 1, IF Len(rest) < PageLimit THEN Len(rest) ELSE PageLimit)

NoPage == [absent |-> TRUE, documents |-> <<>>]

NoData == [pages |-> <<>>, pageParams |-> <<>>]

initialPageParam == 0

\* getNextPageParam as it would be if it handed back the first document's id
getNextPageParamOfFirst(lastPage) ==
    IF lastPage.absent \/ Len(lastPage.documents) = 0 THEN Null
    ELSE lastPage.documents[1]

\* getNextPageParam as it would be if it started over after the last page
getNextPageParamStartingOver(lastPage) ==
    IF lastPage.absent \/ Len(lastPage.documents) = 0 THEN initialPageParam
    ELSE lastPage.documents[Len(lastPage.documents)]

getNextPageParam(lastPage) ==
    IF lastPage.absent \/ Len(lastPage.documents) = 0 THEN Null
    ELSE lastPage.documents[Len(lastPage.documents)]

\* the query function runs for one page and the page is added to the data
fetchPage(m, data, param, o) ==
    LET r == getInfinitePosts(m, param, o)
        page == IF r.ret.kind = "value"
                  THEN [absent |-> FALSE, documents |-> listDocuments(m.s, param)]
                  ELSE NoPage
    IN  [m |-> After(r),
         data |-> [pages |-> Append(data.pages, page),
                   pageParams |-> Append(data.pageParams, param)]]

\* a fetch of the query: the first page, then as many pages as were held,
\* each with the parameter computed from the page before it
RECURSIVE fetchPages(_, _, _, _, _)
fetchPages(m, data, firstParam, remainingPages, os) ==
    LET currentPage == Len(data.pages)
        param == IF currentPage = 0 THEN firstParam
                 ELSE getNextPageParam(data.pages[currentPage])
    IN  IF currentPage >= remainingPages \/ (currentPage > 0 /\ param = Null)
          THEN [m |-> m, data |-> data]
          ELSE LET got == fetchPage(m, data, param, os[currentPage + 1])
               IN  fetchPages(got.m, got.data, firstParam, remainingPages, os)

FeedBackend ==
    LET s1 == Perform(EmptyBackend, "account.create", "", "", 0, <<>>)
    IN  Perform(s1, "databases.createDocument", "users", "", 0, <<1>>)

InitFeed ==
    /\ backend = FeedBackend
    /\ calls = <<>>
    /\ ret = NoResult
    /\ lastOp = NoOp
    /\ ncalls = 0
    /\ feed = NoData
    /\ queries = <<>>
    /\ searchInput = 0
    /\ cache = <<>>
    /\ UIIdle
    /\ TagsIdle

Requested(name, m, data) ==
    /\ ncalls < MaxRequests
    /\ ncalls' = ncalls + 1
    /\ lastOp' = [name |-> name, args |-> <<>>, by |-> 0]
    /\ backend' = m.s
    /\ calls' = m.calls
    /\ ret' = NoResult
    /\ feed' = data
    /\ UNCHANGED <<queries, searchInput, cache, uiVars, tagVars>>

\* a component using the hook mounts, or the query is fetched again: the
\* first page is fetched, and the pages held are fetched again
useGetPosts ==
    LET remainingPages == IF feed.pages = <<>> THEN 1 ELSE Len(feed.pages)
        firstParam == IF feed.pages = <<>> THEN initialPageParam ELSE feed.pageParams[1]
    IN  \E os \in [1..remainingPages -> Outcome] :
            LET got == fetchPages(Start(backend), NoData, firstParam, remainingPages, os)
            IN  Requested("useGetPosts", got.m, got.data)

\* the next page is requested: it is fetched when there is a parameter for it
fetchNextPage ==
    /\ feed.pages # <<>>
    /\ LET param == getNextPageParam(feed.pages[Len(feed.pages)])
       IN  IF param = Null
             THEN Requested("fetchNextPage", Start(backend), feed)
             ELSE \E o \in Outcome :
                      LET got == fetchPage(Start(backend), feed, param, o)
                      IN  Requested("fetchNextPage", got.m, got.data)

\* another client creates a post
PostCreated ==
    /\ backend.nextId < FeedBackend.nextId + 2 * MaxFeedPosts
    /\ backend' = createPost(Start(backend), "ok", "ok", "ok", "ok").s
    /\ NothingReturns
    /\ UNCHANGED <<ncalls, uiVars, tagVars, queryVars>>

\* another client deletes a post
PostDeleted ==
    \E p \in DOMAIN backend.posts :
        /\ backend' = deletePost(Start(backend), p, backend.posts[p].imageId, "ok", "ok").s
        /\ NothingReturns
        /\ UNCHANGED <<ncalls, uiVars, tagVars, queryVars>>

NextFeed ==
    \/ useGetPosts
    \/ fetchNextPage
    \/ PostCreated
    \/ PostDeleted

SpecFeed == InitFeed /\ [][NextFeed]_vars

(***************************************************************************)
(* Tag conversion of createPost and updatePost:                            *)
(*     const tags = post.tags?.replace(/ /g, "").split(",") || [];         *)
(* A string is a sequence of characters.  The tags value of the form is a  *)
(* record: given is FALSE when post.tags is absent, str is the string.     *)
(* The array computed is the `tags` field of the document written.         *)
(***************************************************************************)
Chars == {"a", "b", " ", "\t", ","}

Strings(n) == UNION {[1..k -> Chars] : k \in 0..n}

\* the tags values a post form may hold
TagInputs ==
    {[given |-> FALSE, str |-> <<>>]} \cup
    {[given |-> TRUE, str |-> s] : s \in Strings(MaxTagsLen)}

\* String.prototype.replace(/ /g, ""): every space character is dropped
replace(s) == SelectSeq(s, LAMBDA ch : ch # " ")

\* String.prototype.split(sep): the pieces between the separators; a string
\* without separator, the empty string too, is one piece
RECURSIVE split(_, _)
split(s, sep) ==
    IF \A i \in 1..Len(s) : s[i] # sep THEN <<s>>
    ELSE LET i == CHOOSE k \in 1..Len(s) : s[k] = sep /\ \A j \in 1..(k - 1) : s[j] # sep
         IN  <<SubSeq(s, 1, i - 1)>> \o split(SubSeq(s, i + 1, Len(s)), sep)

\* the conversion as it would be without the replace
tagsUnstripped(postTags) ==
    IF ~postTags.given THEN <<>> ELSE split(postTags.str, ",")

\* post.tags?.replace(/ /g, "").split(",") || []  (an array is never falsy)
tags(postTags) ==
    IF ~postTags.given THEN <<>> ELSE split(replace(postTags.str), ",")

InitTags ==
    /\ formTags \in TagInputs
    /\ writtenTags = <<>>
    /\ backend = EmptyBackend
    /\ calls = <<>>
    /\ ret = NoResult
    /\ lastOp = NoOp
    /\ ncalls = 0
    /\ UIIdle
    /\ QueriesIdle

\* the document name writes, with the tags it carries
WritesTags(name) ==
    /\ writtenTags = <<>>
    /\ writtenTags' = <<[by |-> name, tags |-> tags(formTags)]>>
    /\ UNCHANGED <<formTags, gatewayVars, uiVars, queryVars>>

CreatePostTags == WritesTags("createPost")

UpdatePostTags == WritesTags("updatePost")

NextTags == CreatePostTags \/ UpdatePostTags

SpecTags == InitTags /\ [][NextTags]_vars

(***************************************************************************)
(* The query cache of one browser.  A cached query is an entry of `cache`  *)
(* under its query key: the arguments its data were fetched with (has is   *)
(* FALSE while it holds no data) and whether it has been invalidated.      *)
(* A query hook that mounts is served the entry under its key and, the     *)
(* data being stale at once (staleTime 0), runs its query function, whose  *)
(* result replaces the data of the entry.  A mutation hook runs its        *)
(* gateway function and, unless that throws, its onSuccess callback.       *)
(* The cache starts empty or as it is after the pages have been visited.   *)
(***************************************************************************)
GET_USERS == "getUsers"

UsersQuery == <<GET_USERS>>

\* the values useGetUsers is called with: no limit, or a limit
Limits == {0, 1, 2}

\* the queryKey option of each query hook
queryKey(hook, args) ==
    CASE hook = "useGetRecentPosts" -> RecentPostsQuery
      [] hook = "useGetCurrentUser" -> CurrentUserQuery
      [] hook = "useGetPostById" -> PostByIdQuery(args[1])
      [] hook = "useGetPosts" -> FeedQuery
      [] hook = "useSearchPost" -> SearchQuery(args[1])
      [] hook = "useGetUsers" -> UsersQuery

\* a second post next to the one of FullBackend
CacheBackend ==
    LET s1 == Perform(FullBackend, "storage.createFile", "", "", 0, <<>>)
    IN  Perform(s1, "databases.createDocument", "posts", "", 0,
                <<s1.nextId - 1, s1.nextId - 1>>)

Data(args) == [args |-> args, has |-> TRUE, invalidated |-> FALSE]
NoDataYet(args) == [args |-> args, has |-> FALSE, invalidated |-> FALSE]

Put(c, key, entry) ==
    [k \in (DOMAIN c) \cup {key} |-> IF k = key THEN entry ELSE c[k]]

\* the cache after the home page, the explore page with a search, the users
\* page and the page of each post have been visited
VisitedCache(limit) ==
    LET visits == {<<"useGetRecentPosts", <<>>>>, <<"useGetCurrentUser", <<>>>>,
                   <<"useGetPosts", <<>>>>, <<"useGetUsers", <<limit>>>>}
                  \cup {<<"useGetPostById", <<p>>>> : p \in DOMAIN CacheBackend.posts}
                  \cup {<<"useSearchPost", <<t>>>> : t \in Terms}
    IN  [k \in {queryKey(v[1], v[2]) : v \in visits} |->
            Data((CHOOSE v \in visits : queryKey(v[1], v[2]) = k)[2])]

InitCache ==
    /\ backend = CacheBackend
    /\ calls = <<>>
    /\ ret = NoResult
    /\ lastOp = NoOp
    /\ ncalls = 0
    /\ cache \in {<<>>} \cup {VisitedCache(limit) : limit \in Limits}
    /\ queries = <<>>
    /\ searchInput = 0
    /\ feed = <<>>
    /\ UIIdle
    /\ TagsIdle

\* queryClient.invalidateQueries({ queryKey }) for each key of filters
Invalidate(c, filters) ==
    [k \in DOMAIN c |-> IF \E f \in filters : Matches(f, k)
                          THEN [c[k] EXCEPT !.invalidated = TRUE]
                          ELSE c[k]]

\* onSuccess of useCreatePost
useCreatePostOnSuccess == {<<GET_RECENT_POSTS>>}

\* useUpdatePost's onSuccess as it would be for the recent posts alone
useUpdatePostOnSuccessRecentOnly == {<<GET_RECENT_POSTS>>}

\* onSuccess of useUpdatePost
useUpdatePostOnSuccess == {<<GET_RECENT_POSTS>>, <<GET_POST_BY_ID>>}

\* onSuccess of useDeletePost
useDeletePostOnSuccess == {<<GET_RECENT_POSTS>>}

\* useCreateUserAccount, useSignInAccount, useSignOutAccount: no onSuccess
NoOnSuccess == {}

\* the outcomes of the n remote steps of a gateway function of which at most
\* one does not succeed
Faults(n) ==
    {os \in [1..n -> Outcome] : Cardinality({i \in 1..n : os[i] # "ok"}) <= 1}

Operation(hook, args, r) ==
    /\ ncalls < MaxCacheOps
    /\ ncalls' = ncalls + 1
    /\ backend' = r.s
    /\ calls' = r.calls
    /\ ret' = r.ret
    /\ lastOp' = [name |-> hook, args |-> args, by |-> 0]
    /\ UNCHANGED <<queries, searchInput, feed, uiVars, tagVars>>

\* useQuery: the hook mounts and its query function runs with its arguments
Query(hook, args, r) ==
    LET key == queryKey(hook, args)
    IN  /\ Operation(hook, args, r)
        /\ cache' = IF r.ret.kind = "value" THEN Put(cache, key, Data(args))
                    ELSE IF key \in DOMAIN cache THEN cache
                    ELSE Put(cache, key, NoDataYet(args))

\* useMutation: mutate is called; onSuccess runs unless the function throws
Mutation(hook, args, r, onSuccess) ==
    /\ Operation(hook, args, r)
    /\ cache' = IF MutationSucceeds(r) THEN Invalidate(cache, onSuccess) ELSE cache

useGetCurrentUser ==
    \E os \in Faults(2) :
        Query("useGetCurrentUser", <<>>, getCurrentUser(Start(backend), os[1], os[2]))

useGetPostById ==
    \E postId \in DOMAIN backend.posts \cup {Unknown(backend)}, o \in Outcome :
        /\ postId # 0                                       \* enabled: !!postId
        /\ Query("useGetPostById", <<postId>>, getPostById(Start(backend), postId, o))

\* useSearchPost, as a query of this cache
useSearchPostCached ==
    \E searchTerm \in Terms, o \in Outcome :
        /\ searchTerm # 0                                   \* enabled: !!searchTerm
        /\ Query("useSearchPost", <<searchTerm>>,
                 searchPosts(Start(backend), searchTerm, o))

useGetUsers ==
    \E limit \in Limits, o \in Outcome :
        Query("useGetUsers", <<limit>>, getUsers(Start(backend), limit, o))

useCreateUserAccount ==
    \E os \in Faults(2) :
        Mutation("useCreateUserAccount", <<>>,
                 createUserAccount(Start(backend), os[1], os[2]), NoOnSuccess)

useSignInAccount ==
    \E a \in backend.accounts, o \in Outcome :
        Mutation("useSignInAccount", <<a>>,
                 signInAccount(Start(backend), a, o), NoOnSuccess)

useSignOutAccount ==
    \E o \in Outcome :
        Mutation("useSignOutAccount", <<>>, signOutAccount(Start(backend), o), NoOnSuccess)

useCreatePost ==
    \E os \in Faults(4) :
        Mutation("useCreatePost", <<>>,
                 createPost(Start(backend), os[1], os[2], os[3], os[4]),
                 useCreatePostOnSuccess)

\* useLikePost, mutating from this cache
useLikePostCached ==
    \E p \in DOMAIN backend.posts \cup {Unknown(backend)},
       l \in {<<>>} \cup {<<u>> : u \in DOMAIN backend.users}, o \in Outcome :
        LET r == likePost(Start(backend), p, l, o)
        IN  Mutation("useLikePost", <<p>>, r, useLikePostOnSuccess(r.ret.val))

\* useSavePost, mutating from this cache
useSavePostCached ==
    \E p \in DOMAIN backend.posts, u \in DOMAIN backend.users, o \in Outcome :
        Mutation("useSavePost", <<p, u>>,
                 savePost(Start(backend), p, u, o), useSavePostOnSuccess)

\* useDeleteSavedPost, mutating from this cache
useDeleteSavedPostCached ==
    \E savedRecordId \in DOMAIN backend.saves \cup {Unknown(backend)}, o \in Outcome :
        Mutation("useDeleteSavedPost", <<savedRecordId>>,
                 deleteSavedPost(Start(backend), savedRecordId, o), useSavePostOnSuccess)

useUpdatePost ==
    \E p \in DOMAIN backend.posts, hasFile \in BOOLEAN, os \in Faults(4) :
        LET post == [postId |-> p, imageUrl |-> backend.posts[p].imageUrl,
                     imageId |-> backend.posts[p].imageId, hasFile |-> hasFile]
        IN  Mutation("useUpdatePost", <<p>>,
                     updatePost(Start(backend), post, os[1], os[2], os[3], os[4]),
                     useUpdatePostOnSuccess)

useDeletePost ==
    \E p \in DOMAIN backend.posts, os \in Faults(2) :
        \E postId \in {p, 0}, imageId \in {backend.posts[p].imageId, 0} :
            Mutation("useDeletePost", <<postId, imageId>>,
                     deletePost(Start(backend), postId, imageId, os[1], os[2]),
                     useDeletePostOnSuccess)

NextCache ==
    \/ useGetCurrentUser
    \/ useGetPostById
    \/ useSearchPostCached
    \/ useGetUsers
    \/ useCreateUserAccount
    \/ useSignInAccount
    \/ useSignOutAccount
    \/ useCreatePost
    \/ useLikePostCached
    \/ useSavePostCached
    \/ useDeleteSavedPostCached
    \/ useUpdatePost
    \/ useDeletePost

SpecCache == InitCache /\ [][NextCache]_vars

(***************************************************************************)
(* Properties of the gateway.                                              *)
(***************************************************************************)
Called(name) == lastOp.name = name

Failed(c) == c.out # "ok"

Rejected(c) == c.out = "reject"

AnyCallRejected == \E i \in 1..Len(calls) : Rejected(calls[i])

\* the positions in the call log of the calls to api on collection coll
CallsTo(api, coll) == {i \in 1..Len(calls) : calls[i].api = api /\ calls[i].coll = coll}

\* createPost uploaded its file and then failed to write the post document
UploadedThenWriteFailed ==
    /\ Called("createPost")
    /\ Len(calls) >= 2
    /\ calls[1].api = "storage.createFile" /\ calls[1].out = "ok"
    /\ calls[2].api = "databases.createDocument" /\ Failed(calls[2])

\* C1: whenever createPost uploads the file and the post document write then
\* fails (the write rejects, or yields no document), deleteFile is issued for
\* the uploaded file's id exactly once.
C1_OrphanDeletedOnce ==
    UploadedThenWriteFailed =>
        Cardinality({i \in CallsTo("storage.deleteFile", "") : calls[i].id = calls[1].val}) = 1

\* C2: deletePost called with an empty post id or an empty image id fails at
\* once: it issues no remote call, throws, and leaves the backend as it was.
C2_DeleteNeedsBothIds ==
    [][(lastOp'.name = "deletePost" /\ ncalls' = ncalls + 1
          /\ (lastOp'.args[1] = 0 \/ lastOp'.args[2] = 0))
       => (calls' = <<>> /\ ret'.kind = "thrown" /\ backend' = backend)]_vars

\* deletePost was called for a post the backend holds, without an image id,
\* and threw with the post still there
C2_Witness ==
    /\ Called("deletePost")
    /\ lastOp.args[1] \in DOMAIN backend.posts
    /\ lastOp.args[2] = 0
    /\ ret.kind = "thrown"
    /\ calls = <<>>

C8_FailureIsUndefined ==
    AnyCallRejected => ret.kind = "undefined"

\* C9: when createUserAccount has created the account, exactly one User
\* record write follows, carrying the account's id, and nothing is retried
\* when that write fails.
C9_OneUserWrite ==
    (Called("createUserAccount") /\ Len(calls) >= 1 /\ calls[1].out = "ok") =>
        /\ calls[1].api = "account.create"
        /\ CallsTo("databases.createDocument", "users") = {2}
        /\ calls[2].data = <<calls[1].val>>
        /\ Len(calls) = 2
        /\ (Failed(calls[2]) => ret.kind = "undefined")

\* the account was created, the User record write failed, the function returned
AccountWithoutUser ==
    /\ Called("createUserAccount")
    /\ Len(calls) >= 2
    /\ calls[1].out = "ok"
    /\ Failed(calls[2])

C9_Witness == AccountWithoutUser /\ calls[2].out = "reject" /\ ret.kind = "undefined"

\* C10: when the account is created and the User record write fails, no call
\* touches the account again: it stays in the auth service, without a User
\* record.
C10_NoRollback ==
    AccountWithoutUser =>
        /\ \A i \in 2..Len(calls) : calls[i].api = "databases.createDocument"
        /\ calls[1].val \in backend.accounts
        /\ \A u \in DOMAIN backend.users : backend.users[u].accountId # calls[1].val

C10_Witness ==
    /\ AccountWithoutUser
    /\ calls[1].val \in backend.accounts
    /\ calls[2].out = "nil"

\* the positions in the call log of the file deletions
FileDeletions(log) == {i \in 1..Len(log) : log[i].api = "storage.deleteFile"}

C19_RecordThenImage ==
    Called("deletePost") =>
        /\ \A i \in FileDeletions(calls) :
              /\ i = 2
              /\ calls[1].api = "databases.deleteDocument" /\ calls[1].out = "ok"
              /\ calls[1].id = lastOp.args[1]
              /\ calls[2].id = lastOp.args[2]
        /\ (Len(calls) >= 1 /\ Failed(calls[1])) => Len(calls) = 1
        /\ (Len(calls) >= 1 /\ calls[1].out = "ok") => FileDeletions(calls) = {2}
        /\ Len(calls) <= 2

\* both deletions were issued and performed, the record's first
C19_Witness ==
    /\ Called("deletePost")
    /\ Len(calls) = 2
    /\ calls[1].api = "databases.deleteDocument" /\ calls[1].out = "ok"
    /\ calls[2].api = "storage.deleteFile" /\ calls[2].out = "ok"

\* C20: deletePost hands back {status: "ok"} only when both the post record
\* and the image file were deleted.
C20_OkMeansBothDeleted ==
    (Called("deletePost") /\ ret.kind = "value") =>
        /\ \A i \in 1..Len(calls) : calls[i].out = "ok"
        /\ lastOp.args[1] \notin DOMAIN backend.posts
        /\ lastOp.args[2] \notin backend.files

\* C21: getCurrentUser fetches the account of the active session first, and
\* issues the User lookup, filtered by accountId equal to that account's id,
\* only when the fetch succeeded; it hands back the first matching User
\* record, and nothing when the fetch fails, the lookup fails or no record
\* matches.  It changes nothing in the backend.
C21_AccountThenUser ==
    [][(lastOp'.name = "getCurrentUser" /\ ncalls' = ncalls + 1) =>
          LET log == calls'
              first == FirstUserOf(backend, log[1].val)
          IN  /\ Len(log) \in {1, 2}
              /\ log[1].api = "account.get"
              /\ Len(log) = 2 <=> log[1].out = "ok"
              /\ Len(log) = 2 =>
                    /\ log[2].api = "databases.listDocuments"
                    /\ log[2].coll = "users"
                    /\ log[2].attr = "accountId"
                    /\ log[2].id = log[1].val
                    /\ log[1].val = backend.session
              /\ IF Len(log) = 2 /\ log[2].out = "ok" /\ first # 0
                   THEN ret' = [kind |-> "value", val |-> first]
                   ELSE ret' = NoResult
              /\ backend' = backend]_vars

\* the lookup was issued for the account fetched and a User record came back
C21_Witness ==
    /\ Called("getCurrentUser")
    /\ Len(calls) = 2
    /\ calls[2].id = calls[1].val
    /\ ret.kind = "value"
    /\ backend.users[ret.val].accountId = calls[1].val

\* the positions in the call log of the writes of a post document
PostWrites(log) ==
    {i \in 1..Len(log) : log[i].coll = "posts" /\
                         log[i].api \in {"databases.createDocument",
                                         "databases.updateDocument"}}

\* C25: createPost uploads the image first; when the upload fails it issues
\* no further call (no post document write, no file deletion), leaves the
\* backend as it was and hands back nothing.  A post document is written
\* only as the call after a successful upload, and carries the id of the
\* uploaded file and the preview URL derived for that file.
C25_UploadBeforeWrite ==
    [][(lastOp'.name = "createPost" /\ ncalls' = ncalls + 1) =>
          LET log == calls'
          IN  /\ Len(log) >= 1
              /\ log[1].api = "storage.createFile"
              /\ Failed(log[1]) =>
                    /\ Len(log) = 1
                    /\ ret' = NoResult
                    /\ backend' = backend
              /\ \A i \in PostWrites(log) :
                    /\ i = 2
                    /\ log[1].out = "ok"
                    /\ log[1].val \notin backend.files
                    /\ log[i].api = "databases.createDocument"
                    /\ log[i].data = <<log[1].val, log[1].val>>
              /\ ret'.kind = "value" =>
                    /\ PostWrites(log) = {2}
                    /\ backend'.posts[ret'.val].imageId = log[1].val
                    /\ backend'.posts[ret'.val].imageUrl = log[1].val]_vars

\* the upload failed and createPost stopped there
C25_Witness ==
    /\ Called("createPost")
    /\ Len(calls) = 1
    /\ calls[1].api = "storage.createFile"
    /\ Failed(calls[1])
    /\ ret = NoResult

\* C26: updatePost without a new file issues no upload and its first call
\* writes the post document with the imageUrl and imageId it was given; with
\* a new file it writes the document only after the upload, with the id of
\* the uploaded file and the preview URL of that file, and a successful
\* update leaves the post with both or, without a new file, with neither
\* changed.
C26_ImageBothOrNeither ==
    [][(lastOp'.name = "updatePost" /\ ncalls' = ncalls + 1) =>
          LET log == calls'
              postId == lastOp'.args[1]
              imageId == lastOp'.args[2]
              hasFileToUpdate == lastOp'.args[3] = 1
              imageUrl == lastOp'.args[4]
          IN  /\ ~hasFileToUpdate =>
                    /\ \A i \in 1..Len(log) : log[i].api # "storage.createFile"
                    /\ PostWrites(log) = {1}
                    /\ log[1].id = postId
                    /\ log[1].data = <<imageUrl, imageId>>
              /\ hasFileToUpdate =>
                    /\ log[1].api = "storage.createFile"
                    /\ \A i \in PostWrites(log) :
                          /\ i = 2
                          /\ log[1].out = "ok"
                          /\ log[1].val \notin backend.files
                          /\ log[i].id = postId
                          /\ log[i].data = <<log[1].val, log[1].val>>
              /\ \A i \in PostWrites(log) : log[i].api = "databases.updateDocument"
              /\ ret'.kind = "value" =>
                    LET image == <<backend'.posts[postId].imageUrl,
                                   backend'.posts[postId].imageId>>
                    IN  IF hasFileToUpdate THEN image = <<log[1].val, log[1].val>>
                                           ELSE image = <<imageUrl, imageId>>]_vars

\* a post was updated with a new file: it names the new file and its URL
C26_Witness ==
    /\ Called("updatePost")
    /\ lastOp.args[3] = 1
    /\ ret.kind = "value"
    /\ PostWrites(calls) = {2}
    /\ calls[2].data = <<calls[1].val, calls[1].val>>
    /\ calls[1].val # lastOp.args[2]
    /\ calls[1].val # lastOp.args[4]

(***************************************************************************)
(* Properties of the component and the cache layer.                        *)
(***************************************************************************)
StoredLikes == backend.posts[ThePost].likes

HasLiked(u) == u \in Range(likes[u])

\* a like mutation has just settled with its write performed
LikeWritten == Called("likePost") /\ ret.kind = "value"

\* C3: like toggles are full replacements computed from the caller's own
\* copy: a like request carries exactly the array its caller computed, and
\* when its write completes the stored array is that array, whatever was
\* stored before; so the write that completes last decides the stored likes.
C3_LastWriteWins ==
    [][/\ \A u \in Callers :
             (likes'[u] # likes[u] /\ inflight' # inflight) =>
                 inflight' = inflight \cup {Request("like", u, ThePost, newLikes(likes[u], u))}
       /\ (lastOp'.name = "likePost" /\ ret'.kind = "value") =>
             \E q \in inflight : /\ inflight' = inflight \ {q}
                                 /\ backend'.posts[q.id].likes = q.data]_vars

\* a lost update: both callers have liked the post, a like write of each has
\* completed, nothing is in flight, and the stored array holds one of them
C3_Witness ==
    /\ LikeWritten
    /\ inflight = {}
    /\ \A u \in Callers : HasLiked(u)
    /\ \A u \in Callers : u # lastOp.by => PostByIdQuery(ThePost) \in stale[u]
    /\ StoredLikes = <<lastOp.by>>

\* C4: the backend never holds more than one Save record for a user and the
\* post.
C4_OneSavePerPair ==
    \A u \in Callers : Cardinality(SavesOf(backend, u)) <= 1

NoDuplicates(seq) == Cardinality(Range(seq)) = Len(seq)

\* C5: the local like array, whose length is the count shown, never holds a
\* user id twice, and neither does an array sent to likePost.
C5_LikesAreDistinct ==
    /\ \A u \in Callers : NoDuplicates(likes[u])
    /\ \A q \in inflight : q.kind = "like" => NoDuplicates(q.data)
    /\ NoDuplicates(StoredLikes)

\* a caller's PostStats shows a count of two: it was mounted on a post the
\* other caller had liked, and its own user then liked it too
C5_Witness ==
    \E u \in Callers : /\ Len(likes[u]) = 2
                       /\ likes[u][2] = u
                       /\ Request("like", u, ThePost, likes[u]) \in inflight

\* C6: after a like mutation on the post has succeeded, the caller's
\* post-by-id query, recent-posts query, feed query and current-user query
\* are all stale.
C6_LikeInvalidatesAllFour ==
    LikeWritten =>
        {PostByIdQuery(lastOp.args[1]), RecentPostsQuery, FeedQuery, CurrentUserQuery}
            \subseteq stale[lastOp.by]


\* C17: when the refetched data of a caller's invalidated queries arrive, they
\* replace the local state of PostStats: the like list shown is the refetched
\* post's, the saved flag is that of the refetched current user.
C17_RefetchWins ==
    [][\A u \in Callers :
          (stale[u] # {} /\ stale'[u] = {}) =>
              /\ PostByIdQuery(ThePost) \in stale[u] =>
                    likes'[u] = backend'.posts[ThePost].likes
              /\ CurrentUserQuery \in stale[u] =>
                    isSaved'[u] = (SavesOf(backend', u) # {})]_vars


\* the ids of a like array other than userId, in their order
OtherLikes(likesNow, userId) == SelectSeq(likesNow, LAMBDA id : id # userId)

\* C27: a click on the like icon by a user flips that user's membership in
\* the local like array and leaves every other id, and their order, as they
\* were; the array of that click is the one sent to likePost; and one more
\* click by the same user gives an array with the ids the first click found.
C27_ToggleIsInvolution ==
    [][\A u \in Callers :
          (likes'[u] # likes[u] /\ inflight' # inflight) =>
              /\ u \in Range(likes'[u]) <=> u \notin Range(likes[u])
              /\ OtherLikes(likes'[u], u) = OtherLikes(likes[u], u)
              /\ Request("like", u, ThePost, likes'[u]) \in inflight'
              /\ Range(newLikes(likes'[u], u)) = Range(likes[u])
              /\ OtherLikes(newLikes(likes'[u], u), u) = OtherLikes(likes[u], u)
              /\ \A v \in Callers \ {u} : likes'[v] = likes[v]]_vars

\* a user who had liked the post after another user took the like back: the
\* other user's id is still in the array
C27_Witness ==
    \E u \in Callers :
        /\ likes[u] # <<>>
        /\ u \notin Range(likes[u])
        /\ Request("like", u, ThePost, likes[u]) \in inflight
        /\ Request("like", u, ThePost, Append(likes[u], u)) \in inflight

(***************************************************************************)
(* Properties of the tag conversion.                                       *)
(***************************************************************************)
Whitespace == {" ", "\t"}

\* s without its leading and trailing whitespace
RECURSIVE Trim(_)
Trim(s) ==
    IF s = <<>> THEN s
    ELSE IF Head(s) \in Whitespace THEN Trim(Tail(s))
    ELSE IF s[Len(s)] \in Whitespace THEN Trim(SubSeq(s, 1, Len(s) - 1))
    ELSE s

\* the comma-separated items of the string given, in input order
Items == split(formTags.str, ",")

TagsWritten == writtenTags # <<>> /\ formTags.given

\* C15, as stated: the tags written are the comma-separated items of the
\* string in input order, each trimmed of surrounding whitespace and
\* otherwise unchanged.
C15_ItemsTrimmed ==
    TagsWritten => writtenTags[1].tags = [i \in 1..Len(Items) |-> Trim(Items[i])]

\* C15, amended: the tags written are the comma-separated items of the
\* string in input order, each with every space character removed (spaces
\* inside an item too) and otherwise unchanged.
C15_ItemsWithoutSpaces ==
    TagsWritten => writtenTags[1].tags = [i \in 1..Len(Items) |-> replace(Items[i])]

\* "a, b" was converted to the tags a and b
C15_Witness ==
    /\ TagsWritten
    /\ formTags.str = <<"a", ",", " ", "b">>
    /\ writtenTags[1].tags = << <<"a">>, <<"b">> >>

\* C16: an empty tags string, and an absent tags value, are written as the
\* empty sequence of tags.
C16_EmptyGivesNoTags ==
    (writtenTags # <<>> /\ formTags.str = <<>>) => writtenTags[1].tags = <<>>


Fetched(k) == queries[k].fetches - (IF queries[k].fetching THEN 1 ELSE 0)

\* C14, as stated: the query of the empty term never issues a remote call,
\* and the query of a non-empty term issues exactly one.
C14_OneCallPerTerm ==
    /\ queries[SearchQuery(0)].remote = 0
    /\ \A t \in Terms :
          /\ queries[SearchQuery(t)].remote <= 1
          /\ Fetched(SearchQuery(t)) > 0 => queries[SearchQuery(t)].remote = 1

\* C14, amended: the query of the empty term is never fetched and no search
\* call carries the empty term; every fetch of the query of a non-empty term
\* issues exactly one remote search call, carrying that term, and is not
\* retried.  (The query is fetched again, with one more call, when the term
\* is entered again or the window regains focus.)
C14_OneCallPerFetch ==
    /\ queries[SearchQuery(0)].fetches = 0
    /\ queries[SearchQuery(0)].remote = 0
    /\ \A t \in Terms :
          /\ queries[SearchQuery(t)].runs <= 1
          /\ queries[SearchQuery(t)].remote = Fetched(SearchQuery(t))
    /\ Called("searchPosts") =>
          /\ lastOp.args[1] \in Terms
          /\ Len(calls) = 1
          /\ calls[1].api = "databases.listDocuments" /\ calls[1].attr = "search"
          /\ calls[1].id = lastOp.args[1]

\* a term was searched, another input followed, and the term was entered and
\* fetched again: two remote calls for the one term
C14_Witness ==
    /\ Called("searchPosts")
    /\ searchInput = lastOp.args[1]
    /\ queries[SearchQuery(searchInput)].remote = 2
    /\ queries[SearchQuery(searchInput)].status = "success"
    /\ \A k \in HookQueries \ {SearchQuery(searchInput)} : queries[k].fetches = 0


(***************************************************************************)
(* Properties of the infinite feed.                                        *)
(***************************************************************************)
LastPage(data) == data.pages[Len(data.pages)]

\* the last page held is absent or has no documents
AtEnd(data) ==
    /\ data.pages # <<>>
    /\ LastPage(data).absent \/ Len(LastPage(data).documents) = 0

NextPageRequested == lastOp'.name = "fetchNextPage" /\ ncalls' = ncalls + 1

\* C12: when the last page fetched is absent or has no documents, the next
\* page parameter computed from it says there is no further page, and a
\* request for the next page issues no remote call and leaves the pages as
\* they are, so that later requests for the next page issue none either.
C12_NoCallPastTheEnd ==
    [][(AtEnd(feed) /\ NextPageRequested) =>
          /\ getNextPageParam(LastPage(feed)) = Null
          /\ calls' = <<>>
          /\ feed' = feed
          /\ backend' = backend]_vars

\* the feed was fetched to its end, which is a page without documents after
\* a page with documents, and the next page was requested again
C12_Witness ==
    /\ Called("fetchNextPage")
    /\ calls = <<>>
    /\ Len(feed.pages) = 2
    /\ ~feed.pages[1].absent /\ feed.pages[1].documents # <<>>
    /\ ~feed.pages[2].absent /\ feed.pages[2].documents = <<>>

QueryHooks == {"useGetCurrentUser", "useGetPostById", "useSearchPost", "useGetUsers"}

\* a query hook has mounted in this step
Mounts == lastOp'.name \in QueryHooks /\ ncalls' = ncalls + 1

\* C22: a query hook that mounts is served data fetched with its own
\* arguments: the entry under its key, when it holds data, was fetched with
\* the post id, the search term or the limit the hook is called with, and
\* so is the entry after the hook's own fetch succeeded.
C22_ServedForOwnArguments ==
    [][Mounts =>
          LET key == queryKey(lastOp'.name, lastOp'.args)
          IN  /\ (key \in DOMAIN cache /\ cache[key].has) =>
                    cache[key].args = lastOp'.args
              /\ cache'[key].has => cache'[key].args = lastOp'.args]_vars

\* the cached queries a step left invalidated that were not before it
NewlyInvalidated ==
    {k \in DOMAIN cache' : cache'[k].invalidated /\ ~cache[k].invalidated}

PostByIdQueries == {k \in DOMAIN cache : k[1] = GET_POST_BY_ID}

\* C23: a mutation that succeeds invalidates a fixed set of keys and leaves
\* the rest of the cache as it was: create-post and delete-post the recent
\* posts alone; update-post the recent posts and every cached post-by-id
\* query; save-post and delete-saved-post the same three keys (recent posts,
\* GET_POSTS, current user); sign-up, sign-in and sign-out none.
C23_FixedInvalidationSets ==
    [][(ncalls' = ncalls + 1 /\ ret'.kind # "thrown") =>
          LET hook == lastOp'.name
              keys ==
                  CASE hook \in {"useCreatePost", "useDeletePost"} -> {RecentPostsQuery}
                    [] hook = "useUpdatePost" -> {RecentPostsQuery} \cup PostByIdQueries
                    [] hook \in {"useSavePost", "useDeleteSavedPost"} ->
                         {RecentPostsQuery, <<GET_POSTS>>, CurrentUserQuery}
                    [] hook \in {"useCreateUserAccount", "useSignInAccount",
                                 "useSignOutAccount"} -> {}
                    [] OTHER -> NewlyInvalidated
          IN  hook \notin QueryHooks =>
                  /\ DOMAIN cache' = DOMAIN cache
                  /\ \A k \in DOMAIN cache :
                        cache'[k] = [cache[k] EXCEPT !.invalidated = @ \/ k \in keys]
                  /\ NewlyInvalidated \subseteq keys]_vars

\* a post was updated after the pages had been visited: the recent posts
\* and the queries of both posts by id are invalidated, the others are not
C23_Witness ==
    /\ Called("useUpdatePost")
    /\ ret.kind # "thrown"
    /\ Cardinality(PostByIdQueries) = 2
    /\ \A k \in DOMAIN cache :
          cache[k].invalidated <=> (k = RecentPostsQuery \/ k \in PostByIdQueries)
    /\ {CurrentUserQuery, FeedQuery, UsersQuery} \subseteq DOMAIN cache

InvalidatingHooks ==
    {"useLikePost", "useSavePost", "useDeleteSavedPost",
     "useCreatePost", "useUpdatePost", "useDeletePost"}

============================================================================
